---- MODULE Spec2Model ----
(***************************************************************************)
(* A model of the combat-and-progression engine of python_wow              *)
(* (src/entities.py): the LivingThing life cycle shared by Monster and     *)
(* Character, the auto-attack damage model with level scaling and armor    *)
(* mitigation, the monster's loot roll and the character's level-up.       *)
(*                                                                         *)
(* Numbers.  Python computes damage and health in floating point.  The     *)
(* model computes them exactly, as rationals [n |-> numerator,             *)
(* d |-> denominator] in lowest terms with d > 0; 0.1 is the rational      *)
(* 1/10.  max_health, mana, levels, armor and experience are integers in   *)
(* the program and in the model.                                           *)
(***************************************************************************)
EXTENDS Integers, Sequences, FiniteSets, TLC

VARIABLES
    ent,    \* ent[who]: the fields of the Monster and of the Character
    op,     \* the operation that produced this state, and what it was applied to
    calc,   \* the last application of a pure damage function to drawn inputs
    subject \* the entity whose calls this behaviour follows

vars == <<ent, op, calc, subject>>

(***************************************************************************)
(* Bounds of the model.                                                    *)
(***************************************************************************)
\* Entities are created with health 1..MaxHealth.
MaxHealth == 2
\* The character's mana at creation; the monster's mana never changes.
MaxMana == 1
\* The monster is created with a level in 1..MaxMonsterLevel: with the character's
\* levels that gives equal levels, either side ahead, and a gap of more than 10.
MaxMonsterLevel == 12
\* Spec follows the character's level-ups up to MaxLevel.
MaxLevel == 2
\* The level-stats and XP-requirement tables hold entries up to MaxTableLevel.
MaxTableLevel == 6
\* The character is credited with monsters of levels up to MaxKillLevel.
MaxKillLevel == 6
\* A quest asks for at most MaxNeeded kills or items.
MaxNeeded == 2
\* award_item is called with counts up to MaxItemCount.
MaxItemCount == 2
\* The character is given at most MaxGold gold at a time, pays at most MaxGold
\* for a purchase and holds, or owes, at most twice MaxGold.
MaxGold == 2
\* A buff changes a stat by at most MaxAmount.
MaxAmount == 1
\* A status effect lasts at most MaxDuration turns.
MaxDuration == 2
\* A spell stays on cooldown for at most MaxCooldown turns.
MaxCooldown == 2
\* A DoT is cast at levels up to MaxCasterLevel.
MaxCasterLevel == 2
\* An attack is explored while the health it leaves is >= -MaxOverkill ...
MaxOverkill == 1
\* ... and <= max_health + MaxOverheal.
MaxOverheal == 1
\* random.random() * 100 is drawn from RandomSteps evenly spaced points of [0, 100).
RandomSteps == 3
\* The pure damage functions are applied to levels 0..MaxCalcLevel,
MaxCalcLevel == 12
\* to raw rolls 0..MaxCalcRoll
MaxCalcRoll == 3
\* and to armor values 0..MaxCalcArmor.
MaxCalcArmor == 80

Who == {"monster", "character"}

MonsterLevels == 1 .. MaxMonsterLevel

(***************************************************************************)
(* Exact rational arithmetic (the program's float arithmetic).             *)
(***************************************************************************)
Abs(x) == IF x < 0 THEN -x ELSE x

RECURSIVE GCD(_, _)
GCD(a, b) == IF b = 0 THEN a ELSE GCD(b, a % b)

\* The rational num/den (den # 0) in lowest terms with a positive denominator.
Rat(num, den) ==
    LET g == GCD(Abs(num), Abs(den))
        s == IF den < 0 THEN -1 ELSE 1
    IN  [n |-> s * (num \div g), d |-> s * (den \div g)]

RInt(i) == [n |-> i, d |-> 1]

RMul(a, b) == Rat(a.n * b.n, a.d * b.d)

RSub(a, b) ==
    LET l == (a.d \div GCD(a.d, b.d)) * b.d
    IN  Rat(a.n * (l \div a.d) - b.n * (l \div b.d), l)

RAdd(a, b) == RSub(a, [n |-> -b.n, d |-> b.d])

RLeq(a, b) == a.n * b.d <= b.n * a.d

RLt(a, b) == a.n * b.d < b.n * a.d

\* int(x) of a float: truncation toward zero.
int(x) == IF x.n >= 0 THEN x.n \div x.d ELSE -((-x.n) \div x.d)

(***************************************************************************)
(* External content tables (loaded from the database by loader.py).        *)
(***************************************************************************)
\* _LEVEL_STATS[level]: the stat increases of a level-up to `level`.
LEVEL_STATS(level) ==
    [health |-> 1, mana |-> 1, strength |-> level, armor |-> 10 * level]

\* _REQUIRED_XP_TO_LEVEL[level]: the experience needed to advance from `level`.
REQUIRED_XP_TO_LEVEL(level) == 400 * level

\* load_character_level_stats(): level -> stat increases, levels 2..MaxTableLevel.
load_character_level_stats == [level \in 2 .. MaxTableLevel |-> LEVEL_STATS(level)]

\* load_character_xp_requirements(): level -> experience needed, levels 1..MaxTableLevel.
load_character_xp_requirements ==
    [level \in 1 .. MaxTableLevel |-> REQUIRED_XP_TO_LEVEL(level)]

\* CREATURE_XP_REWARD_DICTIONARY[level]
load_creature_xp_rewards == [level \in 1 .. MaxMonsterLevel |-> 105 * level]

\* CREATURE_XP_REWARD_DICTIONARY[level]: a KeyError for a level that the
\* dictionary does not hold (the application of the function is undefined).
lookup_xp_reward(level) == load_creature_xp_rewards[level]

\* load_loot_table(loot_table_ID): (item, drop chance in percent), in order.
LootTable == << [item |-> "Wolf Meat", chance |-> 50] >>

\* A loot table with an entry that never should drop and one that always does.
BoundaryLootTable ==
    << [item |-> "Broken Fang", chance |-> 0],
       [item |-> "Wolf Meat", chance |-> 50],
       [item |-> "Linen Cloth", chance |-> 100] >>

\* load_loot_table(monster_loot_table_ID)
load_loot_table(monster_loot_table_ID) ==
    IF monster_loot_table_ID = 1 THEN BoundaryLootTable ELSE LootTable

\* The amounts _award_experience is called with.
XpRewards == {400}

\* The values random.random() * 100 takes in the model.
RandomDraws == {(k * 100) \div RandomSteps : k \in 0 .. RandomSteps - 1}

(***************************************************************************)
(* LivingThing                                                             *)
(***************************************************************************)
\* health is a float once a damage has been subtracted from it.  The model
\* keeps the exact value of the arithmetic in health, and in health_error how
\* the float stands to it: "exact" when the float is that value, "inexact"
\* when rounding has moved it off a value other than 0, "above" or "below"
\* when the exact value is 0 and the float is a rounding error off it.
LivingThing_init(health, mana) ==
    [health |-> RInt(health), health_error |-> "exact", max_health |-> health,
     mana |-> mana, max_mana |-> mana,
     alive |-> TRUE, in_combat |-> FALSE]

is_alive(self) == self.alive

is_in_combat(self) == self.in_combat

\* A _regenerate that restores health and forgets mana.
regenerate_health_only(self) ==
    [self EXCEPT !.health = RInt(self.max_health), !.health_error = "exact"]

regenerate(self) ==
    [self EXCEPT !.health = RInt(self.max_health), !.health_error = "exact",
                 !.mana = self.max_mana]

enter_combat(self) == [self EXCEPT !.in_combat = TRUE]

leave_combat(self) == regenerate([self EXCEPT !.in_combat = FALSE])

LivingThing_die(self) == [self EXCEPT !.alive = FALSE]

\* A revive that sets the flag and forgets to regenerate.
revive_without_regenerate(self) == [self EXCEPT !.alive = TRUE]

revive(self) == [regenerate(self) EXCEPT !.alive = TRUE]

(***************************************************************************)
(* Damage (damage.py): a signed physical-damage magnitude that can be      *)
(* subtracted from health.                                                 *)
(***************************************************************************)
Damage(phys_dmg) == [phys_dmg |-> phys_dmg]

\* health - damage
Damage_rsub(health, damage) == RSub(health, damage.phys_dmg)

\* The damages of the model that a float holds exactly: the integers and the
\* halves (abs(level_difference) * 0.1 is exact for the differences 5 and 10
\* only, and the armor reduction for no damage but 0).
is_exact(phys_dmg) == phys_dmg.d \in {1, 2}

\* The float subtraction health - damage is exact when both floats are.
subtraction_is_exact(self, damage) ==
    \/ damage.phys_dmg = RInt(0)
    \/ self.health_error = "exact" /\ is_exact(damage.phys_dmg)

\* How the float health - damage can stand to an exact value of 0: the
\* rounding of an inexact subtraction leaves it at 0 or on either side.
Roundings(self, damage) ==
    IF Damage_rsub(self.health, damage) = RInt(0) /\ ~subtraction_is_exact(self, damage)
    THEN {"below", "exact", "above"}
    ELSE {"exact"}

\* self.health -= damage, with the rounding that the subtraction ends with.
subtract_damage(self, damage, rounding) ==
    LET health == Damage_rsub(self.health, damage)
    IN  [self EXCEPT
            !.health = health,
            !.health_error =
                IF damage.phys_dmg = RInt(0) THEN @
                ELSE IF subtraction_is_exact(self, damage) THEN "exact"
                ELSE IF health = RInt(0) THEN rounding
                ELSE "inexact"]

\* self.health <= 0, of the float.
health_leq_zero(self) ==
    \/ RLt(self.health, RInt(0))
    \/ self.health = RInt(0) /\ self.health_error \in {"exact", "below"}

(***************************************************************************)
(* Monster                                                                 *)
(***************************************************************************)
Monster_init(health, mana, level) ==
    LivingThing_init(health, mana) @@
    [kind |-> "monster", level |-> level, min_damage |-> 0, max_damage |-> 1,
     xp_to_give |-> IF level \in DOMAIN load_creature_xp_rewards
                    THEN lookup_xp_reward(level) ELSE 0,
     quest_relation_ID |-> 0, loot_table_ID |-> 0, loot |-> {"gold"},
     \* the KeyError of lookup_xp_reward: the monster is not created
     raised |-> IF level \in DOMAIN load_creature_xp_rewards THEN "" ELSE "KeyError"]

\* random.randint(int(min_damage), int(max_damage) + 1): both ends included.
Monster_rolls(self) == self.min_damage .. self.max_damage + 1

\* A get_auto_attack_damage with the two branches' signs exchanged.
Monster_get_auto_attack_damage_swapped(self, target_level, roll) ==
    LET level_difference == self.level - target_level
        percentage_mod   == Rat(Abs(level_difference), 10)
        damage_to_deal   == RInt(roll)
    IN  Damage(IF level_difference = 0 THEN damage_to_deal
               ELSE IF level_difference < 0
                    THEN RAdd(damage_to_deal, RMul(damage_to_deal, percentage_mod))
                    ELSE RSub(damage_to_deal, RMul(damage_to_deal, percentage_mod)))

Monster_get_auto_attack_damage(self, target_level, roll) ==
    LET level_difference == self.level - target_level
        percentage_mod   == Rat(Abs(level_difference), 10)
        damage_to_deal   == RInt(roll)
    IN  Damage(IF level_difference = 0 THEN damage_to_deal
               ELSE IF level_difference < 0
                    THEN RSub(damage_to_deal, RMul(damage_to_deal, percentage_mod))
                    ELSE RAdd(damage_to_deal, RMul(damage_to_deal, percentage_mod)))

\* A drop test with the comparison turned around.
item_drops_reversed(item_drop_chance, draw) == item_drop_chance <= draw

\* One table entry drops iff item_drop_chance >= random_float * 100.
item_drops(item_drop_chance, draw) == item_drop_chance >= draw

\* draws[i] is random.random() * 100 of the i-th entry of loot_list.
RECURSIVE drop_loot_from(_, _, _, _)
drop_loot_from(loot, loot_list, i, draws) ==
    IF i > Len(loot_list) THEN loot
    ELSE drop_loot_from(
             IF item_drops(loot_list[i].chance, draws[i])
             THEN loot \cup {loot_list[i].item} ELSE loot,
             loot_list, i + 1, draws)

drop_loot(self, draws) ==
    [self EXCEPT !.loot =
        drop_loot_from(self.loot, load_loot_table(self.loot_table_ID), 1, draws)]

Monster_die(self, draws) == drop_loot(LivingThing_die(self), draws)

(***************************************************************************)
(* Character                                                               *)
(***************************************************************************)
\* Weapon(name, min_damage, max_damage) (items.py); an Item that is a Weapon
\* has a damage range.
Weapon(name, min_damage, max_damage) ==
    [name |-> name, quest_ID |-> 0, min_damage |-> min_damage, max_damage |-> max_damage]

\* isinstance(item, Weapon)
is_weapon(item) == "min_damage" \in DOMAIN item

\* min_damage and max_damage are floats once a weapon is equipped.
Character_init(health, mana) ==
    LivingThing_init(health, mana) @@
    [kind |-> "character", strength |-> 1, min_damage |-> RInt(0), max_damage |-> RInt(1),
     equipped_weapon |-> Weapon("Starter Weapon", 0, 1),
     level |-> 1, experience |-> 0, xp_req_to_level |-> 400, armor |-> 75,
     level_stats |-> load_character_level_stats,
     required_xp_to_level |-> load_character_xp_requirements,
     quest_log |-> [ID \in {} |-> ID], inventory |-> [name \in {"gold"} |-> 0],
     \* the exception that left the last call on the character, "" when it returned
     raised |-> ""]

\* random.randint(int(min_damage), int(max_damage) + 1): both ends included.
Character_rolls(self) == int(self.min_damage) .. int(self.max_damage) + 1

\* _calculate_damage(weapon)
calculate_damage(self, weapon) ==
    [self EXCEPT
        !.min_damage = RAdd(RInt(weapon.min_damage), RMul(Rat(1, 10), RInt(self.strength))),
        !.max_damage = RAdd(RInt(weapon.max_damage), RMul(Rat(1, 10), RInt(self.strength)))]

\* An equip_weapon that keeps the damage range of the weapon before.
equip_weapon_keeping_damage(self, weapon) == [self EXCEPT !.equipped_weapon = weapon]

equip_weapon(self, weapon) ==
    calculate_damage([self EXCEPT !.equipped_weapon = weapon], weapon)

\* An equip_item that does not put the weapon it replaces into the inventory.
equip_item_dropping_old(self, item) ==
    IF ~is_weapon(item) THEN self
    ELSE IF item.name \notin DOMAIN self.inventory THEN [self EXCEPT !.raised = "KeyError"]
    ELSE equip_weapon(
             [self EXCEPT !.inventory =
                 IF @[item.name] = 1
                 THEN [name \in DOMAIN @ \ {item.name} |-> @[name]]
                 ELSE [@ EXCEPT ![item.name] = @ - 1]],
             item)

\* equip_item(item): self.inventory[item.name] raises KeyError for a weapon
\* that is not in the inventory.
equip_item(self, item) ==
    IF ~is_weapon(item) THEN self
    ELSE IF item.name \notin DOMAIN self.inventory THEN [self EXCEPT !.raised = "KeyError"]
    ELSE LET count == self.inventory[item.name]
             removed == IF count = 1
                        THEN [name \in DOMAIN self.inventory \ {item.name} |->
                                 self.inventory[name]]
                        ELSE [self.inventory EXCEPT ![item.name] = count - 1]
             eq_weapon == self.equipped_weapon
             returned == IF eq_weapon.name \in DOMAIN removed
                         THEN [removed EXCEPT ![eq_weapon.name] = @ + 1]
                         ELSE [name \in DOMAIN removed \cup {eq_weapon.name} |->
                                  IF name = eq_weapon.name THEN 1 ELSE removed[name]]
         IN  equip_weapon([self EXCEPT !.inventory = returned], item)

Character_get_auto_attack_damage(self, target_level, roll) ==
    LET level_difference == self.level - target_level
        percentage_mod   == Rat(Abs(level_difference), 10)
        damage_to_deal   == RInt(roll)
    IN  Damage(IF level_difference = 0 THEN damage_to_deal
               ELSE IF level_difference < 0
                    THEN RSub(damage_to_deal, RMul(damage_to_deal, percentage_mod))
                    ELSE RAdd(damage_to_deal, RMul(damage_to_deal, percentage_mod)))

\* A reduction that leaves the attacker's level out of the formula.
reduction_percentage_without_level(armor, attacker_level) ==
    Rat(armor, armor + 400)

\* Armor / (Armor + 400 + 85 * Attacker_Level)
reduction_percentage(armor, attacker_level) ==
    Rat(armor, armor + 400 + 85 * attacker_level)

apply_armor_reduction(armor, damage, attacker_level) ==
    LET damage_to_deduct == RMul(damage.phys_dmg,
                                 reduction_percentage(armor, attacker_level))
        reduced_damage   == RSub(damage.phys_dmg, damage_to_deduct)
    IN  Damage(reduced_damage)

Character_die(self) == LivingThing_die(self)

\* A _level_up that leaves health and mana where they were.
level_up_without_regenerate(self) ==
    LET level == self.level + 1
    IN  IF level \notin DOMAIN self.level_stats
        THEN [self EXCEPT !.level = level, !.raised = "KeyError"]
        ELSE LET current_level_stats == self.level_stats[level]
             IN  [self EXCEPT
                     !.level = level,
                     !.max_health = @ + current_level_stats.health,
                     !.max_mana = @ + current_level_stats.mana,
                     !.strength = @ + current_level_stats.strength,
                     !.armor = @ + current_level_stats.armor]

\* A _level_up that takes a level missing from the table to add nothing.
level_up_ignoring_missing_stats(self) ==
    LET level == self.level + 1
        current_level_stats ==
            IF level \in DOMAIN self.level_stats THEN self.level_stats[level]
            ELSE [health |-> 0, mana |-> 0, strength |-> 0, armor |-> 0]
    IN  regenerate([self EXCEPT
            !.level = level,
            !.max_health = @ + current_level_stats.health,
            !.max_mana = @ + current_level_stats.mana,
            !.strength = @ + current_level_stats.strength,
            !.armor = @ + current_level_stats.armor])

\* self.level += 1, then self._LEVEL_STATS[self.level]: a KeyError when the
\* table has no entry for the new level.
level_up(self) ==
    LET level == self.level + 1
    IN  IF level \notin DOMAIN self.level_stats
        THEN [self EXCEPT !.level = level, !.raised = "KeyError"]
        ELSE LET current_level_stats == self.level_stats[level]
             IN  regenerate([self EXCEPT
                     !.level = level,
                     !.max_health = @ + current_level_stats.health,
                     !.max_mana = @ + current_level_stats.mana,
                     !.strength = @ + current_level_stats.strength,
                     !.armor = @ + current_level_stats.armor])

\* self._REQUIRED_XP_TO_LEVEL[self.level], when the table has the entry.
lookup_next_xp_level_req(self) == self.required_xp_to_level[self.level]

\* A check_if_levelup that carries the overflow into the new level.
check_if_levelup_keeping_overflow(self) ==
    IF self.experience >= self.xp_req_to_level
    THEN LET up == level_up(self)
         IN  IF up.raised # "" THEN up
             ELSE IF up.level \notin DOMAIN up.required_xp_to_level
             THEN [up EXCEPT !.experience = @ - self.xp_req_to_level,
                             !.raised = "KeyError"]
             ELSE [up EXCEPT !.experience = @ - self.xp_req_to_level,
                             !.xp_req_to_level = lookup_next_xp_level_req(up)]
    ELSE self

\* A check_if_levelup that repeats the comparison against the overflow.
RECURSIVE check_if_levelup_repeating(_)
check_if_levelup_repeating(self) ==
    LET once == check_if_levelup_keeping_overflow(self)
    IN  IF once.raised # "" \/ once.level = self.level THEN once
        ELSE check_if_levelup_repeating(once)

check_if_levelup(self) ==
    IF self.experience >= self.xp_req_to_level
    THEN LET up == level_up(self)
         IN  IF up.raised # "" THEN up
             ELSE IF up.level \notin DOMAIN up.required_xp_to_level
             THEN [up EXCEPT !.experience = 0, !.raised = "KeyError"]
             ELSE [up EXCEPT !.experience = 0,
                             !.xp_req_to_level = lookup_next_xp_level_req(up)]
    ELSE self

award_experience(self, xp_reward) ==
    check_if_levelup([self EXCEPT !.experience = @ + xp_reward])

(***************************************************************************)
(* Quest and Item (quest.py, items.py): a kill quest counts kills of the   *)
(* related monsters, an item quest counts one item of the inventory; a     *)
(* quest is completed when its count reaches the required one.             *)
(***************************************************************************)
KillQuest(ID, needed_kills, xp_reward) ==
    [ID |-> ID, type |-> "kill", item |-> "", kills |-> 0, needed |-> needed_kills,
     xp_reward |-> xp_reward, is_completed |-> FALSE]

ItemQuest(ID, item, needed_count, xp_reward) ==
    [ID |-> ID, type |-> "item", item |-> item, kills |-> 0, needed |-> needed_count,
     xp_reward |-> xp_reward, is_completed |-> FALSE]

\* quest.update_kills()
update_kills(quest) ==
    [quest EXCEPT !.kills = @ + 1, !.is_completed = quest.kills + 1 >= quest.needed]

\* quest.check_if_complete(inventory)
check_if_complete(quest, inventory) ==
    [quest EXCEPT !.is_completed =
        /\ quest.item \in DOMAIN inventory
        /\ inventory[quest.item] >= quest.needed]

\* quest.give_reward()
give_reward(quest) == quest.xp_reward

Item(name, quest_ID) == [name |-> name, quest_ID |-> quest_ID]

(***************************************************************************)
(* Character: quests, kills and items.  A call that raised leaves the      *)
(* character as the statements before the raise made it.                   *)
(***************************************************************************)
add_quest(self, quest) ==
    [self EXCEPT !.quest_log =
        [ID \in DOMAIN self.quest_log \cup {quest.ID} |->
            IF ID = quest.ID THEN quest ELSE self.quest_log[ID]]]

\* A _complete_quest that removes the quest and awards nothing.
complete_quest_without_reward(self, quest) ==
    [self EXCEPT !.quest_log =
        [ID \in DOMAIN self.quest_log \ {quest.ID} |-> self.quest_log[ID]]]

\* A _complete_quest that leaves the quest in the log.
complete_quest_keeping_quest(self, quest) ==
    award_experience(self, give_reward(quest))

complete_quest(self, quest) ==
    LET xp_reward == give_reward(quest)
        removed == [self EXCEPT !.quest_log =
                       [ID \in DOMAIN self.quest_log \ {quest.ID} |-> self.quest_log[ID]]]
    IN  award_experience(removed, xp_reward)

check_if_quest_completed(self, quest) ==
    IF quest.is_completed THEN complete_quest(self, quest) ELSE self

\* award_monster_kill with the trivial-kill test level_difference > 5.
monster_kill_xp_above_five(self, monster) ==
    LET level_difference == self.level - monster.level
    IN  IF level_difference > 5 THEN 0
        ELSE IF level_difference < 0
        THEN monster.xp_to_give
             + int(RMul(RInt(monster.xp_to_give), RMul(RInt(Abs(level_difference)), Rat(1, 10))))
        ELSE monster.xp_to_give

\* award_monster_kill with the bonus given whatever the sign of the difference.
monster_kill_xp_unsigned(self, monster) ==
    LET level_difference == self.level - monster.level
    IN  IF level_difference >= 5 THEN 0
        ELSE monster.xp_to_give
             + int(RMul(RInt(monster.xp_to_give), RMul(RInt(Abs(level_difference)), Rat(1, 10))))

\* award_monster_kill, lines 397-415: xp_reward + xp_bonus_reward.
monster_kill_xp(self, monster) ==
    LET level_difference == self.level - monster.level
        xp_reward == IF level_difference >= 5 THEN 0 ELSE monster.xp_to_give
        percentage_mod == RMul(RInt(Abs(level_difference)), Rat(1, 10))
        xp_bonus_reward ==
            IF level_difference >= 5 THEN 0
            ELSE IF level_difference < 0
            THEN int(RMul(RInt(xp_reward), percentage_mod))
            ELSE 0
    IN  xp_reward + xp_bonus_reward

\* "if monster_quest_ID and monster_quest_ID in self.quest_log"
kill_advances_quest(self, monster) ==
    /\ monster.quest_relation_ID # 0
    /\ monster.quest_relation_ID \in DOMAIN self.quest_log

\* award_monster_kill up to the kill's _award_experience.
award_kill_experience(self, monster) ==
    award_experience(self, monster_kill_xp(self, monster))

\* award_monster_kill after it: the quest's kill is counted.
count_quest_kill(self, monster) ==
    [self EXCEPT !.quest_log[monster.quest_relation_ID] = update_kills(@)]

\* An award_monster_kill that counts the kill and leaves the completion
\* unchecked.
award_monster_kill_without_completion_check(self, monster) ==
    LET awarded == award_kill_experience(self, monster)
    IN  IF awarded.raised # "" THEN awarded
        ELSE IF kill_advances_quest(awarded, monster)
        THEN count_quest_kill(awarded, monster)
        ELSE awarded

award_monster_kill(self, monster) ==
    LET awarded == award_kill_experience(self, monster)
    IN  IF awarded.raised # "" THEN awarded
        ELSE IF kill_advances_quest(awarded, monster)
        THEN LET counted == count_quest_kill(awarded, monster)
             IN  check_if_quest_completed(counted,
                     counted.quest_log[monster.quest_relation_ID])
        ELSE awarded

\* "if item_quest_id and item_quest_id in self.quest_log"
item_advances_quest(self, item) ==
    /\ item.quest_ID # 0
    /\ item.quest_ID \in DOMAIN self.quest_log

\* award_item up to the inventory update: a new item is stored with
\* item_count; for a stored one "item, item_count = self.inventory[item.name]"
\* rebinds item_count, so that the stored count is added to itself.
store_item(self, item, item_count) ==
    [self EXCEPT !.inventory =
        IF item.name \notin DOMAIN self.inventory
        THEN [name \in DOMAIN self.inventory \cup {item.name} |->
                 IF name = item.name THEN item_count ELSE self.inventory[name]]
        ELSE [self.inventory EXCEPT ![item.name] = @ + @]]

\* award_item after it: the quest looks at the inventory.
check_item_quest(self, item) ==
    [self EXCEPT !.quest_log[item.quest_ID] = check_if_complete(@, self.inventory)]

award_item(self, item, item_count) ==
    LET stored == store_item(self, item, item_count)
    IN  IF item_advances_quest(stored, item)
        THEN LET checked == check_item_quest(stored, item)
             IN  check_if_quest_completed(checked, checked.quest_log[item.quest_ID])
        ELSE stored

\* award_gold(gold)
award_gold(self, gold) == [self EXCEPT !.inventory["gold"] = @ + gold]

\* buy_item(sale), sale = (item, item_count, item_price): the price leaves
\* the gold, whatever the gold is, and the item is awarded.
buy_item(self, sale) ==
    award_item([self EXCEPT !.inventory["gold"] = @ - sale[3]], sale[1], sale[2])

(***************************************************************************)
(* Status effects (buffs.py, exceptions.py, constants.py): BeneficialBuff  *)
(* and DoT, as the tests of src/tests/test_buffs.py use them.              *)
(***************************************************************************)
\* KEY_HEALTH_ATTRIBUTE, KEY_MANA_ATTRIBUTE, KEY_STRENGTH_ATTRIBUTE,
\* KEY_ARMOR_ATTRIBUTE
BuffTypes == {"health", "mana", "strength", "armor"}

\* f'Buff type {buff_type} is not supported!'
InvalidBuffError(buff_type) ==
    [raised |-> "InvalidBuffError",
     message |-> <<"Buff type ", buff_type, " is not supported!">>]

\* A _manage_buff_types that passes over the types it does not know.
RECURSIVE manage_buff_types_skipping_unknown(_, _, _)
manage_buff_types_skipping_unknown(self, buff_stats_and_amounts, i) ==
    IF i > Len(buff_stats_and_amounts) THEN self
    ELSE LET buff_type == buff_stats_and_amounts[i][1]
             amount == buff_stats_and_amounts[i][2]
         IN  manage_buff_types_skipping_unknown(
                 IF buff_type \in BuffTypes
                 THEN [self EXCEPT !.buff_amounts[buff_type] = amount] ELSE self,
                 buff_stats_and_amounts, i + 1)

\* _manage_buff_types(buff_stats_and_amounts), from the i-th pair on: fills
\* buff_amounts, and raises at the first type that is not a stat.
RECURSIVE manage_buff_types(_, _, _)
manage_buff_types(self, buff_stats_and_amounts, i) ==
    IF i > Len(buff_stats_and_amounts) THEN self
    ELSE LET buff_type == buff_stats_and_amounts[i][1]
             amount == buff_stats_and_amounts[i][2]
         IN  IF buff_type \notin BuffTypes
             THEN [self EXCEPT !.error = InvalidBuffError(buff_type)]
             ELSE manage_buff_types([self EXCEPT !.buff_amounts[buff_type] = amount],
                                    buff_stats_and_amounts, i + 1)

NoError == [raised |-> "", message |-> <<>>]

\* BeneficialBuff(name, buff_stats_and_amounts, duration); error is the
\* exception the constructor raised, NoError when it returned the buff.
BeneficialBuff(name, buff_stats_and_amounts, duration) ==
    manage_buff_types(
        [name |-> name, duration |-> duration,
         buff_amounts |-> [buff_type \in BuffTypes |-> 0], error |-> NoError],
        buff_stats_and_amounts, 1)

\* A BeneficialBuff.__eq__ that leaves the duration out.
BeneficialBuff_eq_without_duration(self, other) ==
    /\ self.name = other.name
    /\ self.buff_amounts = other.buff_amounts

\* BeneficialBuff.__eq__
BeneficialBuff_eq(self, other) ==
    /\ self.name = other.name
    /\ self.buff_amounts = other.buff_amounts
    /\ self.duration = other.duration

\* get_buffed_attributes(): the stats with an amount other than 0, each
\* with its amount.
get_buffed_attributes(self) ==
    [buff_type \in {stat \in BuffTypes : self.buff_amounts[stat] # 0} |->
        self.buff_amounts[buff_type]]

\* DoT(name, damage_tick, duration, caster_lvl)
DoT(name, damage_tick, duration, caster_lvl) ==
    [name |-> name, damage |-> damage_tick, duration |-> duration, level |-> caster_lvl]

\* DoT.update_caster_level(caster_level)
update_caster_level(self, caster_level) == [self EXCEPT !.level = caster_level]

\* A DoT.__eq__ that compares the caster level too.
DoT_eq_with_level(self, other) ==
    /\ self.name = other.name
    /\ self.damage = other.damage
    /\ self.duration = other.duration
    /\ self.level = other.level

\* DoT.__eq__
DoT_eq(self, other) ==
    /\ self.name = other.name
    /\ self.damage = other.damage
    /\ self.duration = other.duration

\* Character.add_buff(buff): the buff is held and its amounts are added to
\* the character's stats.
add_buff(self, buff) ==
    [self EXCEPT !.buffs = @ \cup {buff.name},
                 !.max_health = @ + buff.buff_amounts["health"],
                 !.max_mana = @ + buff.buff_amounts["mana"],
                 !.strength = @ + buff.buff_amounts["strength"],
                 !.armor = @ + buff.buff_amounts["armor"]]

(***************************************************************************)
(* check_if_dead and take_attack, for both kinds of entity.                *)
(***************************************************************************)
\* A check_if_dead that tests health < 0.
check_if_dead_below_zero(self, draws) ==
    IF RLt(self.health, RInt(0)) \/ (self.health = RInt(0) /\ self.health_error = "below")
    THEN IF self.kind = "monster" THEN Monster_die(self, draws)
                                  ELSE Character_die(self)
    ELSE self

\* _die is the override of the entity's class.
check_if_dead(self, draws) ==
    IF health_leq_zero(self)
    THEN IF self.kind = "monster" THEN Monster_die(self, draws)
                                  ELSE Character_die(self)
    ELSE self

\* A take_attack that rolls the loot at every hit.
Monster_take_attack_rolling_loot(self, damage, draws, rounding) ==
    check_if_dead(drop_loot(subtract_damage(self, damage, rounding), draws), draws)

Monster_take_attack(self, damage, draws, rounding) ==
    check_if_dead(subtract_damage(self, damage, rounding), draws)

Character_take_attack(self, damage, attacker_level, rounding) ==
    LET reduced == apply_armor_reduction(self.armor, damage, attacker_level)
    IN  check_if_dead(subtract_damage(self, reduced, rounding), <<>>)

(***************************************************************************)
(* The turn of an entity that carries DoTs: every DoT attached deals its   *)
(* damage to the health, the death is checked, the durations go down by    *)
(* one and the DoTs that reach zero are detached.                          *)
(***************************************************************************)
\* The DoT is attached at the end of the list.
add_dot(self, dot) == [self EXCEPT !.dots = Append(@, dot)]

\* One tick of one DoT: its damage leaves the health, the death is checked.
take_dot_proc(self, dot) ==
    check_if_dead(subtract_damage(self, dot.damage, "exact"), <<>>)

\* The ticks of the DoTs attached, from the i-th on.
RECURSIVE update_dots(_, _)
update_dots(self, i) ==
    IF i > Len(self.dots) THEN self
    ELSE update_dots(take_dot_proc(self, self.dots[i]), i + 1)

\* The DoTs with one turn less each, in their order.
RECURSIVE turn_passed(_, _)
turn_passed(dots, i) ==
    IF i > Len(dots) THEN <<>>
    ELSE <<[dots[i] EXCEPT !.duration = @ - 1]>> \o turn_passed(dots, i + 1)

\* The DoTs that have turns left, in their order.
RECURSIVE running(_, _)
running(dots, i) ==
    IF i > Len(dots) THEN <<>>
    ELSE (IF dots[i].duration > 0 THEN <<dots[i]>> ELSE <<>>) \o running(dots, i + 1)

\* An end of turn that keeps the DoTs whose duration has reached zero.
end_turn_update_without_expiry(self) ==
    [update_dots(self, 1) EXCEPT !.dots = turn_passed(@, 1)]

\* The turn-processing step of the entity.
end_turn_update(self) ==
    [update_dots(self, 1) EXCEPT !.dots = running(turn_passed(@, 1), 1)]

\* A give_loot that hands the item out and keeps the entry.
give_loot_keeping_entry(self, item_name) == self

\* Monster.give_loot: FALSE when the item is not in the loot.
give_loot(self, item_name) ==
    IF item_name \notin self.loot THEN self
    ELSE [self EXCEPT !.loot = @ \ {item_name}]

\* "return False", the unsuccessful loot.
NotDropped == "False"

\* What give_loot returns: the entry of the item, or False.
give_loot_result(self, item_name) ==
    IF item_name \notin self.loot THEN NotDropped ELSE item_name

\* A spell cast of the character's class (classes.py): mana is spent.
spend_mana(self, cost) == [self EXCEPT !.mana = @ - cost]

(***************************************************************************)
(* Paladin (classes.py), as the tests of src/tests/test_classes.py use it: *)
(* a Character with the Seal of Righteousness flag SOR_ACTIVE and, for     *)
(* each learned spell, its cooldown counter.                               *)
(***************************************************************************)
PaladinSpells == {"Seal of Righteousness", "Flash of Light"}

Paladin_init(health, mana) ==
    Character_init(health, mana) @@
    [SOR_ACTIVE |-> FALSE, learned_spells |-> [spell \in PaladinSpells |-> 0]]

\* Casting a learned spell that is off cooldown: its mana is spent, its
\* cooldown starts, and the seal becomes active.
cast_spell(self, spell, mana_cost, cooldown) ==
    [spend_mana(self, mana_cost) EXCEPT
        !.learned_spells[spell] = cooldown,
        !.SOR_ACTIVE = @ \/ spell = "Seal of Righteousness"]

\* The end of a turn: every cooldown counter moves one turn on.
pass_turn(self) ==
    [self EXCEPT !.learned_spells =
        [spell \in PaladinSpells |-> IF @[spell] > 0 THEN @[spell] - 1 ELSE 0]]

\* reset_spell_cooldowns()
reset_spell_cooldowns(self) ==
    [self EXCEPT !.learned_spells = [spell \in PaladinSpells |-> 0]]

\* A Paladin.leave_combat that keeps the cooldowns.
Paladin_leave_combat_keeping_cooldowns(self) ==
    [leave_combat(self) EXCEPT !.SOR_ACTIVE = FALSE]

\* Paladin.leave_combat(): the Character's, then the seal and the cooldowns.
Paladin_leave_combat(self) ==
    reset_spell_cooldowns([leave_combat(self) EXCEPT !.SOR_ACTIVE = FALSE])

(***************************************************************************)
(* The state machine: a Monster and a Character, and any sequence of calls *)
(* on one of them, the subject, chosen at creation.  The other entity is   *)
(* its opponent: of an opponent the code reads only the level and the      *)
(* damage range (Monster.attack passes victim.level and self.level,        *)
(* get_auto_attack_damage takes target_level), so the calls made on the    *)
(* opponent do not change what the subject can go through.  The character  *)
(* gains experience, and levels up, in either role.                        *)
(***************************************************************************)
NoCalc == [fn |-> "none"]

NoOp == [name |-> "init", who |-> "none", pre_alive |-> TRUE]

Called(name, who) == [name |-> name, who |-> who, pre_alive |-> ent[who].alive]

InitEntities ==
    \E mh \in 1 .. MaxHealth, ml \in MonsterLevels, ch \in 1 .. MaxHealth :
        ent = [who \in Who |->
                  IF who = "monster" THEN Monster_init(mh, 1, ml)
                                     ELSE Character_init(ch, MaxMana)]

\* The opponent of the subject takes no hit: its health stays the one of its
\* creation, 1 here.
Init ==
    /\ InitEntities
    /\ op = NoOp
    /\ calc = NoCalc
    /\ subject \in Who
    /\ \A who \in Who \ {subject} : ent[who].max_health = 1

\* The health an attack may leave, within the bounds of the model.
Explored(self) ==
    /\ RLeq(RInt(-MaxOverkill), self.health)
    /\ RLeq(self.health, RInt(self.max_health + MaxOverheal))

EnterCombat ==
    \E who \in {subject} :
        /\ ent' = [ent EXCEPT ![who] = enter_combat(@)]
        /\ op' = Called("enter_combat", who)
        /\ UNCHANGED <<calc, subject>>

LeaveCombat ==
    \E who \in {subject} :
        /\ ent' = [ent EXCEPT ![who] = leave_combat(@)]
        /\ op' = Called("leave_combat", who)
        /\ UNCHANGED <<calc, subject>>

Revive ==
    \E who \in {subject} :
        /\ ent' = [ent EXCEPT ![who] = revive(@)]
        /\ op' = Called("revive", who)
        /\ UNCHANGED <<calc, subject>>

\* The draws of random.random() that a take_attack makes: those of the loot
\* roll when the hit leaves health <= 0, none (all 0 here) when it does not.
LootDraws(hit, entries) ==
    IF health_leq_zero(hit) THEN [1 .. entries -> RandomDraws]
                            ELSE {[i \in 1 .. entries |-> 0]}

\* Monster.attack(victim): the monster swings at the character.
MonsterAttack ==
    \E roll \in Monster_rolls(ent["monster"]) :
      LET monster_swing == Monster_get_auto_attack_damage(
                               ent["monster"], ent["character"].level, roll)
          reduced == apply_armor_reduction(ent["character"].armor, monster_swing,
                                           ent["monster"].level)
      IN
      \E rounding \in Roundings(ent["character"], reduced) :
        LET victim == Character_take_attack(ent["character"], monster_swing,
                                            ent["monster"].level, rounding)
        IN  /\ subject = "character"
            /\ Explored(victim)
            /\ ent' = [ent EXCEPT !["character"] = victim]
            /\ op' = Called("take_attack", "character")
            /\ UNCHANGED <<calc, subject>>

\* Monster.take_attack(damage) with the character's auto-attack swing.
CharacterAttack ==
    \E roll \in Character_rolls(ent["character"]) :
        \E rounding \in Roundings(ent["monster"],
                                  Character_get_auto_attack_damage(
                                      ent["character"], ent["monster"].level, roll)) :
          \E draws \in LootDraws(subtract_damage(ent["monster"],
                                     Character_get_auto_attack_damage(
                                         ent["character"], ent["monster"].level, roll),
                                     rounding),
                                 Len(LootTable)) :
            LET swing == Character_get_auto_attack_damage(
                             ent["character"], ent["monster"].level, roll)
                victim == Monster_take_attack(ent["monster"], swing, draws, rounding)
            IN  /\ subject = "monster"
                /\ Explored(victim)
                /\ ent' = [ent EXCEPT !["monster"] = victim]
                /\ op' = Called("take_attack", "monster")
                /\ UNCHANGED <<calc, subject>>

GiveLoot ==
    \E item_name \in {"gold"} \cup {LootTable[i].item : i \in 1 .. Len(LootTable)} :
        /\ subject = "monster"
        /\ ent' = [ent EXCEPT !["monster"] = give_loot(@, item_name)]
        /\ op' = Called("give_loot", "monster")
        /\ UNCHANGED <<calc, subject>>

\* _award_experience(xp_reward), followed up to level MaxLevel.
AwardExperience ==
    \E xp_reward \in XpRewards :
        /\ \/ ent["character"].level < MaxLevel
           \/ ent["character"].experience + xp_reward < ent["character"].xp_req_to_level
        /\ ent' = [ent EXCEPT !["character"] = award_experience(@, xp_reward)]
        /\ op' = Called("award_experience", "character")
        /\ UNCHANGED <<calc, subject>>

SpendMana ==
    /\ subject = "character"
    /\ ent["character"].mana >= 1
    /\ ent' = [ent EXCEPT !["character"] = spend_mana(@, 1)]
    /\ op' = Called("spend_mana", "character")
    /\ UNCHANGED <<calc, subject>>

Next ==
    \/ EnterCombat
    \/ LeaveCombat
    \/ Revive
    \/ MonsterAttack
    \/ CharacterAttack
    \/ GiveLoot
    \/ AwardExperience
    \/ SpendMana

Spec == Init /\ [][Next]_vars

(***************************************************************************)
(* The pure damage functions, applied to inputs drawn from bounded sets.   *)
(***************************************************************************)
SwingInputs ==
    [fn : {"swing_input"}, self_level : 1 .. MaxCalcLevel,
     target_level : 1 .. MaxCalcLevel, roll : 0 .. MaxCalcRoll]

ArmorInputs ==
    [fn : {"armor_input"}, armor : 0 .. MaxCalcArmor,
     attacker_level : 0 .. MaxCalcLevel, roll : 0 .. MaxCalcRoll]

InitDamage ==
    /\ ent = [who \in Who |-> IF who = "monster" THEN Monster_init(1, 1, 1)
                                                 ELSE Character_init(1, MaxMana)]
    /\ op = NoOp
    /\ subject = "none"
    /\ calc \in SwingInputs \cup ArmorInputs

CalcMonsterSwing ==
    /\ calc.fn = "swing_input"
    /\ calc' = [calc EXCEPT !.fn = "Monster.get_auto_attack_damage"] @@
               [result |-> Monster_get_auto_attack_damage(
                               Monster_init(1, 1, calc.self_level),
                               calc.target_level, calc.roll)]
    /\ UNCHANGED <<ent, op, subject>>

CalcCharacterSwing ==
    /\ calc.fn = "swing_input"
    /\ calc' = [calc EXCEPT !.fn = "Character.get_auto_attack_damage"] @@
               [result |-> Character_get_auto_attack_damage(
                               [Character_init(1, 1) EXCEPT !.level = calc.self_level],
                               calc.target_level, calc.roll)]
    /\ UNCHANGED <<ent, op, subject>>

CalcArmorReduction ==
    /\ calc.fn = "armor_input"
    /\ calc' = [calc EXCEPT !.fn = "_apply_armor_reduction"] @@
               [fraction |-> reduction_percentage(calc.armor, calc.attacker_level),
                result |-> apply_armor_reduction(calc.armor, Damage(RInt(calc.roll)),
                                                 calc.attacker_level)]
    /\ UNCHANGED <<ent, op, subject>>

NextDamage ==
    \/ CalcMonsterSwing
    \/ CalcCharacterSwing
    \/ CalcArmorReduction

SpecDamage == InitDamage /\ [][NextDamage]_vars

(***************************************************************************)
(* Progression: one Character, the monsters it is credited with, the items *)
(* it is given and one quest.  The level-stats table lists the levels from *)
(* 2 and the XP-requirement table the levels from 1; the database may end  *)
(* either of them first.  A call that raised ends the run: the program     *)
(* handles no exception.                                                   *)
(*                                                                         *)
(* op records the call: pre is the character before it; mid is the         *)
(* character before the last _award_experience of the call (before         *)
(* _complete_quest when the call completed a quest) and last_xp what that  *)
(* _award_experience was given; added and awards count the add_quest calls *)
(* and the _complete_quest calls so far.                                   *)
(***************************************************************************)
TableExtents ==
    { <<MaxTableLevel, MaxTableLevel>>,
      <<MaxTableLevel - 1, MaxTableLevel>>,
      <<MaxTableLevel, MaxTableLevel - 1>> }

QuestXp == 300

Quests ==
    { KillQuest(1, MaxNeeded, QuestXp), ItemQuest(2, "Wolf Meat", MaxNeeded, QuestXp) }

Items == { Item("Wolf Meat", 2) }

Brief(self) ==
    [level |-> self.level, experience |-> self.experience,
     xp_req_to_level |-> self.xp_req_to_level, quest_log |-> DOMAIN self.quest_log,
     quests |-> self.quest_log,
     max_health |-> self.max_health, max_mana |-> self.max_mana,
     strength |-> self.strength, armor |-> self.armor]

NoKill == [level_difference |-> 0, xp_to_give |-> 0, xp |-> 0, quest_relation_ID |-> 0]

NoProgress ==
    [name |-> "init", who |-> "none", pre_alive |-> TRUE,
     pre |-> Brief(Character_init(1, MaxMana)), mid |-> Brief(Character_init(1, MaxMana)),
     last_xp |-> 0, kill |-> NoKill, quest_done |-> 0, added |-> 0, awards |-> 0]

Progress(name, pre, mid, last_xp, kill, quest_done) ==
    [name |-> name, who |-> "character", pre_alive |-> pre.alive,
     pre |-> Brief(pre), mid |-> Brief(mid), last_xp |-> last_xp, kill |-> kill,
     quest_done |-> quest_done,
     added |-> op.added + (IF name = "add_quest" THEN 1 ELSE 0),
     awards |-> op.awards + (IF quest_done # 0 THEN 1 ELSE 0)]

InitXP ==
    /\ \E extent \in TableExtents :
          ent = [character |->
                    [Character_init(1, MaxMana) EXCEPT
                        !.level_stats = [level \in 2 .. extent[1] |-> LEVEL_STATS(level)],
                        !.required_xp_to_level =
                            [level \in 1 .. extent[2] |-> REQUIRED_XP_TO_LEVEL(level)]]]
    /\ op = NoProgress
    /\ calc = NoCalc
    /\ subject = "character"

\* add_quest(quest), once.
AddQuest ==
    /\ ent.character.raised = ""
    /\ op.added = 0
    /\ \E quest \in Quests :
          /\ ent' = [ent EXCEPT !.character = add_quest(@, quest)]
          /\ op' = Progress("add_quest", ent.character, ent.character, 0, NoKill, 0)
    /\ UNCHANGED <<calc, subject>>

\* award_monster_kill(monster), of a monster related to the kill quest or to
\* none.
AwardMonsterKill ==
    /\ ent.character.raised = ""
    /\ \E level \in 1 .. MaxKillLevel, quest_relation_ID \in {0, 1} :
          LET self == ent.character
              monster == [Monster_init(1, 1, level) EXCEPT
                             !.quest_relation_ID = quest_relation_ID]
              kill == [level_difference |-> self.level - monster.level,
                       xp_to_give |-> monster.xp_to_give,
                       xp |-> monster_kill_xp(self, monster),
                       quest_relation_ID |-> monster.quest_relation_ID]
              awarded == award_kill_experience(self, monster)
              counted == count_quest_kill(awarded, monster)
              completes ==
                  /\ awarded.raised = ""
                  /\ kill_advances_quest(awarded, monster)
                  /\ counted.quest_log[quest_relation_ID].is_completed
          IN  /\ ent' = [ent EXCEPT !.character = award_monster_kill(self, monster)]
              /\ op' = IF completes
                       THEN Progress("award_monster_kill", self, counted,
                                     give_reward(counted.quest_log[quest_relation_ID]),
                                     kill, quest_relation_ID)
                       ELSE Progress("award_monster_kill", self, self, kill.xp, kill, 0)
    /\ UNCHANGED <<calc, subject>>

\* award_item(item, item_count); the stored count stays within 2 * MaxNeeded.
AwardItem ==
    /\ ent.character.raised = ""
    /\ \E item \in Items, item_count \in 1 .. MaxItemCount :
          LET self == ent.character
              stored == store_item(self, item, item_count)
              checked == check_item_quest(stored, item)
              completes ==
                  /\ item_advances_quest(stored, item)
                  /\ checked.quest_log[item.quest_ID].is_completed
          IN  /\ stored.inventory[item.name] <= 2 * MaxNeeded
              /\ ent' = [ent EXCEPT !.character = award_item(self, item, item_count)]
              /\ op' = IF completes
                       THEN Progress("award_item", self, checked,
                                     give_reward(checked.quest_log[item.quest_ID]),
                                     NoKill, item.quest_ID)
                       ELSE Progress("award_item", self, self, 0, NoKill, 0)
    /\ UNCHANGED <<calc, subject>>

NextXP ==
    \/ AddQuest
    \/ AwardMonsterKill
    \/ AwardItem

SpecXP == InitXP /\ [][NextXP]_vars

(***************************************************************************)
(* Loot: one Monster with the boundary loot table, hit by a level-1        *)
(* Character, revived and looted.  op records the call, the draws of its   *)
(* loot roll and whether the monster has died so far; for give_loot, the   *)
(* item asked for, what the call returned and the loot before it; taken    *)
(* counts, for each name, the entries handed out since the last loot roll. *)
(***************************************************************************)
NoDraws == [i \in {} |-> 0]

LootNames == {"gold"} \cup {BoundaryLootTable[i].item : i \in 1 .. Len(BoundaryLootTable)}

NoLoot ==
    [name |-> "init", who |-> "none", pre_alive |-> TRUE, draws |-> NoDraws,
     died |-> FALSE, item_name |-> "", result |-> "", pre_loot |-> {"gold"},
     taken |-> [name \in LootNames |-> 0]]

Looting(name, draws, died, item_name, result) ==
    [name |-> name, who |-> "monster", pre_alive |-> ent.monster.alive,
     draws |-> draws, died |-> op.died \/ died,
     item_name |-> item_name, result |-> result, pre_loot |-> ent.monster.loot,
     taken |-> IF name = "take_attack" /\ died
               THEN [n \in LootNames |-> 0]
               ELSE IF name = "give_loot" /\ result # NotDropped
               THEN [op.taken EXCEPT ![item_name] = @ + 1]
               ELSE op.taken]

InitLoot ==
    /\ \E health \in 1 .. MaxHealth :
          ent = [monster |-> [Monster_init(health, 1, 1) EXCEPT !.loot_table_ID = 1]]
    /\ op = NoLoot
    /\ calc = NoCalc
    /\ subject = "monster"

\* Monster.take_attack(damage): the damage of a level-1 character's swing.
LootAttack ==
    \E roll \in Character_rolls(Character_init(1, MaxMana)) :
        \E draws \in [1 .. Len(load_loot_table(ent.monster.loot_table_ID)) -> RandomDraws],
           rounding \in Roundings(ent.monster,
                                  Character_get_auto_attack_damage(
                                      Character_init(1, MaxMana), ent.monster.level, roll)) :
            LET swing == Character_get_auto_attack_damage(
                             Character_init(1, MaxMana), ent.monster.level, roll)
                victim == Monster_take_attack(ent.monster, swing, draws, rounding)
            IN  /\ Explored(victim)
                /\ ent' = [ent EXCEPT !.monster = victim]
                /\ op' = IF victim.alive
                         THEN Looting("take_attack", NoDraws, FALSE, "", "")
                         ELSE Looting("take_attack", draws, TRUE, "", "")
                /\ UNCHANGED <<calc, subject>>

LootRevive ==
    /\ ent' = [ent EXCEPT !.monster = revive(@)]
    /\ op' = Looting("revive", NoDraws, FALSE, "", "")
    /\ UNCHANGED <<calc, subject>>

LootGive ==
    \E item_name \in LootNames :
        /\ ent' = [ent EXCEPT !.monster = give_loot(@, item_name)]
        /\ op' = Looting("give_loot", NoDraws, FALSE, item_name,
                         give_loot_result(ent.monster, item_name))
        /\ UNCHANGED <<calc, subject>>

NextLoot ==
    \/ LootAttack
    \/ LootRevive
    \/ LootGive

SpecLoot == InitLoot /\ [][NextLoot]_vars

(***************************************************************************)
(* Status effects.  With subject "buffs", two BeneficialBuffs a and b are  *)
(* constructed from names, durations and lists of up to two (stat, amount) *)
(* pairs, drawn at the start; with subject "character", buffs are          *)
(* constructed from lists that may hold a type that is no stat, and given  *)
(* to a Character.  op records the arguments of the call, the exception it *)
(* raised and the character before it.                                     *)
(***************************************************************************)
BuffNames == {"BMW", "BMW2"}

Amounts == 0 .. MaxAmount

Durations == 1 .. MaxDuration

StatPairs(types) == {<<buff_type, amount>> : buff_type \in types, amount \in Amounts}

\* Lists of up to two pairs, of different types.
StatLists(types) ==
    {<<>>} \cup {<<pair>> : pair \in StatPairs(types)}
           \cup {pairs \in StatPairs(types) \X StatPairs(types) :
                     pairs[1][1] # pairs[2][1]}

BuffInputs ==
    [fn : {"buff_input"},
     a_name : {"BMW"}, a_args : StatLists(BuffTypes), a_duration : Durations,
     b_name : BuffNames, b_args : StatLists(BuffTypes), b_duration : Durations]

BuffedCharacter == Character_init(1, MaxMana) @@ [buffs |-> {}]

Constructing(name, who, args, error) ==
    [name |-> name, who |-> who, pre_alive |-> TRUE, args |-> args, error |-> error,
     pre |-> ent.character]

InitBuff ==
    /\ ent = [character |-> BuffedCharacter]
    /\ op = [name |-> "init", who |-> "none", pre_alive |-> TRUE, args |-> <<>>,
             error |-> NoError, pre |-> BuffedCharacter]
    /\ subject \in {"buffs", "character"}
    /\ IF subject = "buffs" THEN calc \in BuffInputs ELSE calc = NoCalc

\* a = BeneficialBuff(...) and b = BeneficialBuff(...), with stats only.
ConstructBuffs ==
    /\ subject = "buffs"
    /\ calc.fn = "buff_input"
    /\ calc' = [calc EXCEPT !.fn = "BeneficialBuff"] @@
               [a |-> BeneficialBuff(calc.a_name, calc.a_args, calc.a_duration),
                b |-> BeneficialBuff(calc.b_name, calc.b_args, calc.b_duration)]
    /\ UNCHANGED <<ent, op, subject>>

\* character.add_buff(BeneficialBuff(...)): an exception of the constructor
\* leaves add_buff uncalled.
ApplyBuff ==
    /\ subject = "character"
    /\ \E name \in BuffNames \ ent.character.buffs, duration \in Durations,
          args \in StatLists(BuffTypes \cup {"LoLo"}) :
          LET buff == BeneficialBuff(name, args, duration)
          IN  /\ ent' = IF buff.error.raised # "" THEN ent
                        ELSE [ent EXCEPT !.character = add_buff(@, buff)]
              /\ op' = Constructing("add_buff", name, args, buff.error)
    /\ UNCHANGED <<calc, subject>>

NextBuff ==
    \/ ConstructBuffs
    \/ ApplyBuff

SpecBuff == InitBuff /\ [][NextBuff]_vars

(***************************************************************************)
(* Two DoTs, a and b, constructed again and again and moved to other       *)
(* caster levels.                                                          *)
(***************************************************************************)
DoTNames == {"Audi", "Audi "}

DoTs ==
    {DoT(name, Damage(RInt(phys_dmg)), duration, caster_lvl) :
        name \in DoTNames, phys_dmg \in 1 .. 1 + MaxAmount, duration \in Durations,
        caster_lvl \in 0 .. MaxCasterLevel}

InitDoT ==
    /\ ent = [character |-> Character_init(1, MaxMana)]
    /\ op = NoOp
    /\ calc \in [fn : {"DoT"}, a : DoTs, b : DoTs]
    /\ subject = "none"

ConstructDoT ==
    /\ \E slot \in {"a", "b"}, dot \in DoTs :
          /\ calc' = [calc EXCEPT ![slot] = dot]
          /\ op' = [name |-> "DoT", who |-> slot, pre_alive |-> TRUE,
                    caster_level |-> dot.level]
    /\ UNCHANGED <<ent, subject>>

UpdateCasterLevel ==
    /\ \E slot \in {"a", "b"}, caster_level \in 0 .. MaxCasterLevel :
          /\ calc' = [calc EXCEPT ![slot] = update_caster_level(@, caster_level)]
          /\ op' = [name |-> "update_caster_level", who |-> slot, pre_alive |-> TRUE,
                    caster_level |-> caster_level]
    /\ UNCHANGED <<ent, subject>>

NextDoT ==
    \/ ConstructDoT
    \/ UpdateCasterLevel

SpecDoT == InitDoT /\ [][NextDoT]_vars

(***************************************************************************)
(* A target that carries DoTs through its turns.  op.track keeps, for each *)
(* name, the DoT as it was attached and the turns the target has ended     *)
(* with it attached; op.attached is the number of DoTs before the call.    *)
(***************************************************************************)
\* The target can outlast every DoT, or die of the first tick.
TargetHealths == {1, 4 * MaxDuration * (1 + MaxAmount) + 1}

TickDoTs ==
    {DoT(name, Damage(RInt(phys_dmg)), duration, 1) :
        name \in DoTNames, phys_dmg \in 1 .. 1 + MaxAmount, duration \in Durations}

NeverAttached == [n |-> 0, ticks |-> 0, damage |-> Damage(RInt(0))]

IsAttached(self, name) == \E i \in 1 .. Len(self.dots) : self.dots[i].name = name

InitTick ==
    /\ \E health \in TargetHealths :
          ent = [target |-> Character_init(health, MaxMana) @@ [dots |-> <<>>]]
    /\ op = [name |-> "init", who |-> "none", pre_alive |-> TRUE, attached |-> 0,
             track |-> [name \in DoTNames |-> NeverAttached]]
    /\ calc = NoCalc
    /\ subject = "target"

\* A DoT of a name that the target has not carried yet is attached.
AttachDoT ==
    /\ ent.target.alive
    /\ \E dot \in TickDoTs :
          /\ op.track[dot.name] = NeverAttached
          /\ ent' = [ent EXCEPT !.target = add_dot(@, dot)]
          /\ op' = [name |-> "add_dot", who |-> "target", pre_alive |-> TRUE,
                    attached |-> Len(ent.target.dots),
                    track |-> [op.track EXCEPT ![dot.name] =
                                  [n |-> dot.duration, ticks |-> 0, damage |-> dot.damage]]]
    /\ UNCHANGED <<calc, subject>>

\* The target ends a turn.
EndTurn ==
    /\ ent.target.alive
    /\ ent' = [ent EXCEPT !.target = end_turn_update(@)]
    /\ op' = [name |-> "end_turn_update", who |-> "target", pre_alive |-> TRUE,
              attached |-> Len(ent.target.dots),
              track |-> [name \in DoTNames |->
                            IF IsAttached(ent.target, name)
                            THEN [op.track[name] EXCEPT !.ticks = @ + 1]
                            ELSE op.track[name]]]
    /\ UNCHANGED <<calc, subject>>

NextTick ==
    \/ AttachDoT
    \/ EndTurn

SpecTick == InitTick /\ [][NextTick]_vars

(***************************************************************************)
(* A Paladin in and out of combat.  The tests set _in_combat, SOR_ACTIVE   *)
(* and the cooldown counters directly, so a run starts from any of their   *)
(* values.  op records the call and the Paladin before it.                 *)
(***************************************************************************)
InitPaladin ==
    /\ \E in_combat \in BOOLEAN, SOR_ACTIVE \in BOOLEAN,
          learned_spells \in [PaladinSpells -> 0 .. MaxCooldown] :
          ent = [character |-> [Paladin_init(1, MaxMana) EXCEPT
                                   !.in_combat = in_combat,
                                   !.SOR_ACTIVE = SOR_ACTIVE,
                                   !.learned_spells = learned_spells]]
    /\ op = [name |-> "init", who |-> "none", pre_alive |-> TRUE,
             pre |-> Paladin_init(1, MaxMana)]
    /\ calc = NoCalc
    /\ subject = "character"

PaladinCall(name, self) ==
    /\ ent' = [ent EXCEPT !.character = self]
    /\ op' = [name |-> name, who |-> "character", pre_alive |-> ent.character.alive,
              pre |-> ent.character]
    /\ UNCHANGED <<calc, subject>>

PaladinEnterCombat == PaladinCall("enter_combat", enter_combat(ent.character))

PaladinLeaveCombat == PaladinCall("leave_combat", Paladin_leave_combat(ent.character))

PaladinCast ==
    \E spell \in PaladinSpells, cooldown \in 1 .. MaxCooldown :
        /\ ent.character.learned_spells[spell] = 0
        /\ ent.character.mana >= 1
        /\ PaladinCall("spell_handler", cast_spell(ent.character, spell, 1, cooldown))

PaladinPassTurn == PaladinCall("end_turn", pass_turn(ent.character))

PaladinResetCooldowns ==
    PaladinCall("reset_spell_cooldowns", reset_spell_cooldowns(ent.character))

NextPaladin ==
    \/ PaladinEnterCombat
    \/ PaladinLeaveCombat
    \/ PaladinCast
    \/ PaladinPassTurn
    \/ PaladinResetCooldowns

SpecPaladin == InitPaladin /\ [][NextPaladin]_vars

(***************************************************************************)
(* Equipment: one Character that is given weapons, equips them, levels up  *)
(* and swings, and one Monster that swings.  op records the call, the item *)
(* it was given, the roll of a swing and the character before the call.    *)
(***************************************************************************)
Weapons == { Weapon("Starter Weapon", 0, 1), Weapon("Sword", 1, 2), Weapon("Axe", 2, 4) }

Equipping(name, who, item, roll) ==
    [name |-> name, who |-> who, pre_alive |-> TRUE, item |-> item, roll |-> roll,
     pre |-> ent.character]

InitEquip ==
    /\ ent = [character |-> Character_init(1, MaxMana), monster |-> Monster_init(1, 1, 1)]
    /\ op = [name |-> "init", who |-> "none", pre_alive |-> TRUE,
             item |-> Item("", 0), roll |-> 0, pre |-> Character_init(1, MaxMana)]
    /\ calc = NoCalc
    /\ subject = "character"

\* award_item(weapon, item_count); the stored count stays within 2 * MaxItemCount.
AwardWeapon ==
    /\ ent.character.raised = ""
    /\ \E item \in Weapons, item_count \in 1 .. MaxItemCount :
          /\ store_item(ent.character, item, item_count).inventory[item.name]
                 <= 2 * MaxItemCount
          /\ ent' = [ent EXCEPT !.character = award_item(@, item, item_count)]
          /\ op' = Equipping("award_item", "character", item, 0)
    /\ UNCHANGED <<calc, subject>>

\* equip_item(item), of a weapon or of an item that is none; the count of the
\* weapon that goes back to the inventory stays within 2 * MaxItemCount.
EquipItem ==
    /\ ent.character.raised = ""
    /\ \E item \in Weapons \cup {Item("Wolf Meat", 2)} :
          /\ \A name \in DOMAIN equip_item(ent.character, item).inventory :
                 equip_item(ent.character, item).inventory[name] <= 2 * MaxItemCount
          /\ ent' = [ent EXCEPT !.character = equip_item(@, item)]
          /\ op' = Equipping("equip_item", "character", item, 0)
    /\ UNCHANGED <<calc, subject>>

EquipWeapon ==
    /\ ent.character.raised = ""
    /\ \E weapon \in Weapons :
          /\ ent' = [ent EXCEPT !.character = equip_weapon(@, weapon)]
          /\ op' = Equipping("equip_weapon", "character", weapon, 0)
    /\ UNCHANGED <<calc, subject>>

\* _award_experience(xp_reward), followed up to level MaxLevel.
EquipLevelUp ==
    /\ ent.character.raised = ""
    /\ \E xp_reward \in XpRewards :
          /\ \/ ent.character.level < MaxLevel
             \/ ent.character.experience + xp_reward < ent.character.xp_req_to_level
          /\ ent' = [ent EXCEPT !.character = award_experience(@, xp_reward)]
          /\ op' = Equipping("award_experience", "character", Item("", 0), 0)
    /\ UNCHANGED <<calc, subject>>

\* The roll of get_auto_attack_damage, of the character and of the monster.
Swing ==
    /\ ent.character.raised = ""
    /\ \/ \E roll \in Character_rolls(ent.character) :
             op' = Equipping("get_auto_attack_damage", "character", Item("", 0), roll)
       \/ \E roll \in Monster_rolls(ent.monster) :
             op' = Equipping("get_auto_attack_damage", "monster", Item("", 0), roll)
    /\ UNCHANGED <<ent, calc, subject>>

NextEquip ==
    \/ AwardWeapon
    \/ EquipItem
    \/ EquipWeapon
    \/ EquipLevelUp
    \/ Swing

SpecEquip == InitEquip /\ [][NextEquip]_vars

(***************************************************************************)
(* Gold and purchases: one Character that is given gold and items and buys *)
(* items.  op records the call, its item and count, and the character      *)
(* before the call.                                                        *)
(***************************************************************************)
Shopping(name, item, item_count) ==
    [name |-> name, who |-> "character", pre_alive |-> TRUE, item |-> item,
     item_count |-> item_count, pre |-> ent.character]

InitShop ==
    /\ ent = [character |-> Character_init(1, MaxMana)]
    /\ op = [name |-> "init", who |-> "none", pre_alive |-> TRUE, item |-> Item("", 0),
             item_count |-> 0, pre |-> Character_init(1, MaxMana)]
    /\ calc = NoCalc
    /\ subject = "character"

\* award_gold(gold)
AwardGold ==
    /\ \E gold \in 1 .. MaxGold :
          /\ ent.character.inventory["gold"] + gold <= 2 * MaxGold
          /\ ent' = [ent EXCEPT !.character = award_gold(@, gold)]
          /\ op' = Shopping("award_gold", Item("", 0), 0)
    /\ UNCHANGED <<calc, subject>>

\* buy_item((item, item_count, item_price)); the stored count stays within
\* 2 * MaxItemCount.
BuyItem ==
    /\ \E item \in Items, item_count \in 1 .. MaxItemCount,
          item_price \in 0 .. MaxGold :
          /\ ent.character.inventory["gold"] - item_price >= -2 * MaxGold
          /\ store_item(ent.character, item, item_count).inventory[item.name]
                 <= 2 * MaxItemCount
          /\ ent' = [ent EXCEPT !.character = buy_item(@, <<item, item_count, item_price>>)]
          /\ op' = Shopping("buy_item", item, item_count)
    /\ UNCHANGED <<calc, subject>>

\* award_item(item, item_count); the stored count stays within 2 * MaxItemCount.
ShopAwardItem ==
    /\ \E item \in Items, item_count \in 1 .. MaxItemCount :
          /\ store_item(ent.character, item, item_count).inventory[item.name]
                 <= 2 * MaxItemCount
          /\ ent' = [ent EXCEPT !.character = award_item(@, item, item_count)]
          /\ op' = Shopping("award_item", item, item_count)
    /\ UNCHANGED <<calc, subject>>

NextShop ==
    \/ AwardGold
    \/ BuyItem
    \/ ShopAwardItem

SpecShop == InitShop /\ [][NextShop]_vars

(***************************************************************************)
(* Properties of the entity life cycle, under Spec.                        *)
(***************************************************************************)
Zero == RInt(0)

\* The entity op was applied to.
Target == ent[op.who]

AtFullResources(self) ==
    /\ self.health = RInt(self.max_health)
    /\ self.mana = self.max_mana

\* C1: in every state reached by take_attack, enter_combat, leave_combat, revive
\* and experience awards on entities created with max health >= 1, an entity
\* whose health is <= 0 is not alive.
C1_NoHealthMeansDead ==
    \A who \in Who : health_leq_zero(ent[who]) => ~is_alive(ent[who])

\* An attack on a living entity has taken its health to 0 or below, and it is dead.
C1_Witness ==
    /\ op.name = "take_attack"
    /\ op.pre_alive
    /\ health_leq_zero(Target)
    /\ ~is_alive(Target)

\* C2: after revive of a dead entity the entity is alive, its health equals
\* max_health and its mana equals max_mana.
C2_ReviveRestores ==
    (op.name = "revive" /\ ~op.pre_alive) =>
        (is_alive(Target) /\ AtFullResources(Target))

\* A dead character has been revived.
C2_Witness ==
    /\ op.name = "revive"
    /\ ~op.pre_alive
    /\ op.who = "character"
    /\ is_alive(Target)

\* C3: take_attack on an entity that is not alive leaves its health unchanged.
C3_DeadTakesNoDamage ==
    [][\A who \in Who :
          (~is_alive(ent[who]) /\ op'.name = "take_attack" /\ op'.who = who)
              => ent'[who].health = ent[who].health]_vars

\* C4: while the monster stays dead (from its death to its next revive) no
\* further death transition rolls loot, so its loot mapping gains no entry: an
\* item taken with give_loot does not reappear.
C4_LootRolledOncePerDeath ==
    [][(~is_alive(ent["monster"]) /\ ~is_alive(ent'["monster"]))
          => ent'["monster"].loot \subseteq ent["monster"].loot]_vars

\* C5: in every reachable state a dead entity has health <= 0 (only revive
\* raises the health of a dead entity above 0).
C5_DeadHasNoHealth ==
    \A who \in Who : ~is_alive(ent[who]) => health_leq_zero(ent[who])

\* C6: after leave_combat on any entity the in-combat flag is false, health
\* equals max_health and mana equals max_mana.
C6_LeaveCombatRegenerates ==
    op.name = "leave_combat" =>
        (~is_in_combat(Target) /\ AtFullResources(Target))

\* leave_combat has been called on the character after a level-up.
C6_Witness ==
    /\ op.name = "leave_combat"
    /\ op.who = "character"
    /\ Target.level > 1
    /\ ~is_in_combat(Target)

\* C7: after revive of a dead entity the in-combat flag is false, also when the
\* entity died while in combat.
C7_ReviveLeavesCombat ==
    (op.name = "revive" /\ ~op.pre_alive) => ~is_in_combat(Target)

\* C8: in every state reached by attacks, combat enter/leave, revive and
\* level-ups, health <= max_health and mana <= max_mana.
C8_ResourcesWithinMax ==
    \A who \in Who :
        /\ RLeq(ent[who].health, RInt(ent[who].max_health))
        /\ ent[who].mana <= ent[who].max_mana

\* C33: an attack never raises the defender's health: whatever the levels of
\* the attacker and of the defender and whatever the roll, the health after
\* take_attack is at most the health before it.
C33_AttackNeverHeals ==
    [][ op'.name = "take_attack" =>
            RLeq(ent'[op'.who].health, ent[op'.who].health) ]_vars

\* C28: _level_up raises the level by exactly one, adds the new level's
\* table entry to max_health, max_mana, strength and armor, and leaves health
\* at the new max_health and mana at the new max_mana.
C28_LevelUp ==
    [][ (op'.name = "award_experience" /\ ent'["character"].level # ent["character"].level) =>
            LET self == ent["character"]
                after == ent'["character"]
                current_level_stats == self.level_stats[self.level + 1]
            IN  /\ after.level = self.level + 1
                /\ after.max_health = self.max_health + current_level_stats.health
                /\ after.max_mana = self.max_mana + current_level_stats.mana
                /\ after.strength = self.strength + current_level_stats.strength
                /\ after.armor = self.armor + current_level_stats.armor
                /\ after.health = RInt(after.max_health)
                /\ after.mana = after.max_mana
      ]_vars

\* C28: a character that had died was awarded the experience of a level and
\* levelled up: it is at level 2 with no experience left over, and its health
\* and mana are the maxima of the new level.
C28_Witness ==
    /\ op.name = "award_experience"
    /\ ~ent["character"].alive
    /\ ent["character"].level = 2
    /\ ent["character"].experience = 0
    /\ ent["character"].health = RInt(ent["character"].max_health)
    /\ ent["character"].mana = ent["character"].max_mana

(***************************************************************************)
(* Properties of the progression, under SpecXP.                            *)
(***************************************************************************)
\* The character as the kill's _award_experience left it.
AfterKillXp == IF op.quest_done # 0 THEN op.mid ELSE Brief(ent.character)

\* The last _award_experience of the call reached the requirement.
LevelUpTriggered == op.mid.experience + op.last_xp >= op.mid.xp_req_to_level

\* C11: when the character is 5 or more levels above the monster,
\* award_monster_kill awards 0 kill XP, and the kill XP leaves the
\* character's experience and level as they were.
C11_TrivialKillGivesNoXp ==
    (op.name = "award_monster_kill" /\ op.kill.level_difference >= 5) =>
        /\ op.kill.xp = 0
        /\ AfterKillXp.experience = op.pre.experience
        /\ AfterKillXp.level = op.pre.level

\* C11: a character with experience was credited with a monster 5 levels below.
C11_Witness ==
    /\ op.name = "award_monster_kill"
    /\ op.kill.level_difference >= 5
    /\ op.pre.experience > 0
    /\ ent.character.experience = op.pre.experience

\* C12: for a monster of higher level the kill XP is
\* baseXp + floor(baseXp * 0.1 * |diff|); for 0 <= diff < 5 it is baseXp.
C12_KillXpBonus ==
    op.name = "award_monster_kill" =>
        /\ op.kill.level_difference < 0 =>
              op.kill.xp = op.kill.xp_to_give
                  + (op.kill.xp_to_give * Abs(op.kill.level_difference)) \div 10
        /\ (op.kill.level_difference >= 0 /\ op.kill.level_difference < 5) =>
              op.kill.xp = op.kill.xp_to_give

\* C12: a higher-level monster was killed and the bonus was rounded down.
C12_Witness ==
    /\ op.name = "award_monster_kill"
    /\ op.kill.level_difference < 0
    /\ (op.kill.xp_to_give * Abs(op.kill.level_difference)) % 10 # 0
    /\ op.kill.xp > op.kill.xp_to_give

\* C13: after a _complete_quest that returned, the quest is no longer in the
\* quest log, and the experience is the previous experience plus the reward
\* when that stays below the requirement, or 0 with the level raised by one
\* when it reaches it.
C13_CompleteQuest ==
    (op.quest_done # 0 /\ ent.character.raised = "") =>
        /\ op.quest_done \in op.mid.quest_log
        /\ op.quest_done \notin DOMAIN ent.character.quest_log
        /\ IF LevelUpTriggered
           THEN /\ ent.character.experience = 0
                /\ ent.character.level = op.mid.level + 1
           ELSE /\ ent.character.experience = op.mid.experience + op.last_xp
                /\ ent.character.level = op.mid.level

\* C13: a quest was completed and its reward raised the level.
C13_Witness ==
    /\ op.quest_done # 0
    /\ ent.character.raised = ""
    /\ op.last_xp > 0
    /\ ent.character.level = op.mid.level + 1

\* C14: after a single add_quest, the quest's XP is awarded at most once,
\* however many matching kills or items follow.
C14_QuestAwardedOnce == op.added <= 1 => op.awards <= 1

\* C14: the quest was completed, and a further kill of a monster related to
\* it was credited.
C14_Witness ==
    /\ op.added = 1
    /\ op.awards = 1
    /\ op.name = "award_monster_kill"
    /\ op.kill.quest_relation_ID = 1
    /\ op.quest_done = 0
    /\ ent.character.quest_log = [ID \in {} |-> ID]

\* C27: award_monster_kill for a monster whose quest-relation id is not 0
\* and is in the quest log raises the quest's kill counter by exactly one
\* and, when the quest is then complete, removes it from the log and awards
\* its XP in the same call; for an id that is 0 or not in the log the quest
\* log stays as it was.
C27_KillAdvancesQuest ==
    (op.name = "award_monster_kill" /\ ent.character.raised = "") =>
        LET ID == op.kill.quest_relation_ID
            before == op.pre.quests
            after == ent.character.quest_log
        IN  IF ID # 0 /\ ID \in DOMAIN before
            THEN IF before[ID].kills + 1 >= before[ID].needed
                 THEN /\ ID \notin DOMAIN after
                      /\ op.quest_done = ID
                      /\ op.mid.quests[ID].kills = before[ID].kills + 1
                      /\ op.last_xp = before[ID].xp_reward
                      /\ ent.character.experience =
                             IF LevelUpTriggered THEN 0
                             ELSE op.mid.experience + before[ID].xp_reward
                 ELSE /\ DOMAIN after = DOMAIN before
                      /\ after[ID] = [before[ID] EXCEPT !.kills = @ + 1]
            ELSE after = before

\* C27: the kill that completed the quest was credited: the quest left the
\* log and its XP was added to the kill's XP.
C27_Witness ==
    /\ op.name = "award_monster_kill"
    /\ ent.character.raised = ""
    /\ op.quest_done = 1
    /\ op.kill.xp > 0
    /\ ent.character.experience = op.pre.experience + op.kill.xp + op.last_xp
    /\ ent.character.quest_log = [ID \in {} |-> ID]

\* C15: between calls that returned, experience is below xp_req_to_level,
\* and it is 0 right after a level-up.
C15_ExperienceBelowRequirement ==
    ent.character.raised = "" =>
        /\ ent.character.experience < ent.character.xp_req_to_level
        /\ ent.character.level > op.mid.level => ent.character.experience = 0

\* C15: a level-up discarded experience above the requirement.
C15_Witness ==
    /\ ent.character.raised = ""
    /\ ent.character.level > op.mid.level
    /\ op.mid.experience + op.last_xp > op.mid.xp_req_to_level
    /\ ent.character.experience = 0

\* C16: one _award_experience raises the level by at most one, whatever the
\* amount.
C16_OneLevelPerAward ==
    /\ ent.character.level <= op.mid.level + 1
    /\ op.mid.level <= op.pre.level + 1

\* C16: an award reached the requirement of the level and of the next one
\* together, and raised the level by one.
C16_Witness ==
    /\ ent.character.raised = ""
    /\ op.mid.level + 1 \in DOMAIN ent.character.required_xp_to_level
    /\ op.mid.experience + op.last_xp >=
           op.mid.xp_req_to_level + ent.character.required_xp_to_level[op.mid.level + 1]
    /\ ent.character.level = op.mid.level + 1

\* C17: a level-up to a level that the level-stats table or the
\* XP-requirement table does not hold raises an error to the caller.
C17_MissingEntryRaises ==
    ( /\ LevelUpTriggered
      /\ \/ op.mid.level + 1 \notin DOMAIN ent.character.level_stats
         \/ op.mid.level + 1 \notin DOMAIN ent.character.required_xp_to_level )
    => ent.character.raised = "KeyError"

\* C17: a level-up found no level-stats entry for the new level and raised.
C17_Witness ==
    /\ LevelUpTriggered
    /\ op.mid.level + 1 \notin DOMAIN ent.character.level_stats
    /\ ent.character.raised = "KeyError"
    /\ ent.character.level = op.mid.level + 1

\* C35: a level-up that raises on a missing table entry leaves level,
\* max_health, max_mana, strength, armor and xp_req_to_level as they were
\* before the level-up step of the award that triggered it.
C35_FailedLevelUpKeepsState ==
    (LevelUpTriggered /\ ent.character.raised = "KeyError") =>
        /\ ent.character.level = op.mid.level
        /\ ent.character.max_health = op.mid.max_health
        /\ ent.character.max_mana = op.mid.max_mana
        /\ ent.character.strength = op.mid.strength
        /\ ent.character.armor = op.mid.armor
        /\ ent.character.xp_req_to_level = op.mid.xp_req_to_level

(***************************************************************************)
(* Properties of the loot, under SpecLoot.                                 *)
(***************************************************************************)
\* The call was a take_attack that ran _die, and so rolled the loot.
LootRolled == op.name = "take_attack" /\ ~ent.monster.alive

\* C18: a monster that has not died holds no entries in its loot mapping.
C18_Original == ~op.died => ent.monster.loot = {}

\* C18, amended: a monster that has not died holds no item in its loot
\* mapping, which holds at most the gold entry of its construction.
C18_NoItemBeforeDeath == ~op.died => ent.monster.loot \subseteq {"gold"}

\* C18: a monster was hit, survived and still holds its gold.
C18_Witness ==
    /\ ~op.died
    /\ op.name = "take_attack"
    /\ RLt(ent.monster.health, RInt(ent.monster.max_health))
    /\ ent.monster.loot = {"gold"}

\* C21: give_loot removes and returns the named entry when the loot holds
\* it, and otherwise returns the not-dropped outcome and leaves the loot as
\* it was; between two loot rolls no entry is handed out twice.
C21_GiveLoot ==
    /\ op.name = "give_loot" =>
          IF op.item_name \in op.pre_loot
          THEN /\ op.result = op.item_name
               /\ ent.monster.loot = op.pre_loot \ {op.item_name}
          ELSE /\ op.result = NotDropped
               /\ ent.monster.loot = op.pre_loot
    /\ \A name \in LootNames : op.taken[name] <= 1

\* C21: an item that was dropped and taken was asked for again, and the
\* call returned the not-dropped outcome.
C21_Witness ==
    /\ op.name = "give_loot"
    /\ op.item_name = "Linen Cloth"
    /\ op.taken["Linen Cloth"] = 1
    /\ op.result = NotDropped
    /\ ent.monster.loot = op.pre_loot

\* C19: whatever the draw, the loot roll drops the item of a table entry
\* with drop chance 100.
C19_ChanceHundredDrops == LootRolled => "Linen Cloth" \in ent.monster.loot

\* C19: the loot was rolled with the largest draw for the entry of chance
\* 100, and its item dropped.
C19_Witness ==
    /\ LootRolled
    /\ op.draws[3] = ((RandomSteps - 1) * 100) \div RandomSteps
    /\ "Linen Cloth" \in ent.monster.loot

\* C20: whatever the draw, 0.0 included, the loot roll never drops the item
\* of a table entry with drop chance 0.
C20_ChanceZeroNeverDrops == "Broken Fang" \notin ent.monster.loot

(***************************************************************************)
(* Properties of the status effects, under SpecBuff and SpecDoT.           *)
(***************************************************************************)
\* The amount a list of (stat, amount) pairs gives a stat, 0 when none.
Given(args, buff_type) ==
    IF \E i \in 1 .. Len(args) : args[i][1] = buff_type
    THEN args[CHOOSE i \in 1 .. Len(args) : args[i][1] = buff_type][2]
    ELSE 0

\* C22: a BeneficialBuff holds, for each of the four stats, the amount it
\* was given, 0 for a stat it was not given; two BeneficialBuffs are equal
\* if and only if their names, their durations and these four amounts match.
C22_BuffEquality ==
    calc.fn = "BeneficialBuff" =>
        /\ \A buff_type \in BuffTypes :
              /\ calc.a.buff_amounts[buff_type] = Given(calc.a_args, buff_type)
              /\ calc.b.buff_amounts[buff_type] = Given(calc.b_args, buff_type)
        /\ BeneficialBuff_eq(calc.a, calc.b) <=>
              /\ calc.a_name = calc.b_name
              /\ calc.a_duration = calc.b_duration
              /\ \A buff_type \in BuffTypes :
                    Given(calc.a_args, buff_type) = Given(calc.b_args, buff_type)

\* C22: two buffs are equal although one was given a stat, with amount 0,
\* that the other was not given.
C22_Witness ==
    /\ calc.fn = "BeneficialBuff"
    /\ BeneficialBuff_eq(calc.a, calc.b)
    /\ Len(calc.a_args) = 2
    /\ Len(calc.b_args) = 1
    /\ DOMAIN get_buffed_attributes(calc.a) # {}

\* C23: update_caster_level(n) sets the DoT's level to n and changes
\* nothing else of it, nor the result of comparing the two DoTs; two DoTs
\* that differ in name, damage or duration are unequal.
C23_DoTEquality ==
    [][ /\ op'.name = "update_caster_level" =>
              /\ calc'[op'.who] = [calc[op'.who] EXCEPT !.level = op'.caster_level]
              /\ DoT_eq(calc'.a, calc'.b) = DoT_eq(calc.a, calc.b)
        /\ ( \/ calc'.a.name # calc'.b.name
             \/ calc'.a.damage # calc'.b.damage
             \/ calc'.a.duration # calc'.b.duration ) => ~DoT_eq(calc'.a, calc'.b)
      ]_vars

\* C23: after update_caster_level the two DoTs have different levels and
\* are equal.
C23_Witness ==
    /\ op.name = "update_caster_level"
    /\ calc.a.level # calc.b.level
    /\ DoT_eq(calc.a, calc.b)

\* The first type of the list that is no stat.
FirstInvalid(args) ==
    args[CHOOSE i \in 1 .. Len(args) :
            /\ args[i][1] \notin BuffTypes
            /\ \A j \in 1 .. i - 1 : args[j][1] \in BuffTypes][1]

\* C24: constructing a BeneficialBuff from a list that holds a type outside
\* the four stats raises InvalidBuffError with the message
\* 'Buff type <key> is not supported!', also after valid pairs, and the
\* character keeps its stats and buffs; from a list of stats the buff is
\* constructed and given.
C24_InvalidBuffRejected ==
    op.name = "add_buff" =>
        IF \E i \in 1 .. Len(op.args) : op.args[i][1] \notin BuffTypes
        THEN /\ op.error.raised = "InvalidBuffError"
             /\ op.error.message =
                    <<"Buff type ", FirstInvalid(op.args), " is not supported!">>
             /\ ent.character = op.pre
        ELSE /\ op.error = NoError
             /\ op.who \in ent.character.buffs

\* C24: a list with a valid pair before the invalid type was rejected.
C24_Witness ==
    /\ op.name = "add_buff"
    /\ Len(op.args) = 2
    /\ op.args[1][1] = "armor"
    /\ op.args[1][2] # 0
    /\ op.args[2][1] = "LoLo"
    /\ op.error.raised = "InvalidBuffError"
    /\ ent.character = op.pre

(***************************************************************************)
(* Properties of the DoTs of a target through its turns, under SpecTick.   *)
(***************************************************************************)
\* The damage that the turns ended with the DoTs of these names attached
\* should have dealt: one tick a turn.
RECURSIVE TickedDamage(_, _)
TickedDamage(track, names) ==
    IF names = {} THEN RInt(0)
    ELSE LET name == CHOOSE name \in names : TRUE
         IN  RAdd(RMul(RInt(track[name].ticks), track[name].damage.phys_dmg),
                  TickedDamage(track, names \ {name}))

\* C31: while the target is alive, its health is the initial one less one
\* tick of damage for every turn ended with a DoT attached; a DoT attached
\* with duration n that has ticked k times has duration n - k >= 1, and a
\* DoT that is detached has ticked exactly n times and ticks no more.
C31_DoTTicksOncePerTurn ==
    ent.target.alive =>
        /\ ent.target.health =
               RSub(RInt(ent.target.max_health), TickedDamage(op.track, DoTNames))
        /\ \A i \in 1 .. Len(ent.target.dots) :
              LET dot == ent.target.dots[i]
              IN  /\ dot.duration >= 1
                  /\ dot.duration = op.track[dot.name].n - op.track[dot.name].ticks
                  /\ dot.damage = op.track[dot.name].damage
        /\ \A name \in DoTNames :
              ~IsAttached(ent.target, name) => op.track[name].ticks = op.track[name].n

\* C31: a DoT of MaxDuration turns has ticked MaxDuration times and is
\* detached, and the target, alive, has ended one more turn with no DoT.
C31_Witness ==
    /\ op.name = "end_turn_update"
    /\ op.attached = 0
    /\ ent.target.alive
    /\ ent.target.dots = <<>>
    /\ \E name \in DoTNames :
          /\ op.track[name].n = MaxDuration
          /\ op.track[name].ticks = MaxDuration
          /\ ent.target.health =
                 RSub(RInt(ent.target.max_health), TickedDamage(op.track, DoTNames))
          /\ RLt(ent.target.health, RInt(ent.target.max_health))

(***************************************************************************)
(* Properties of the Paladin, under SpecPaladin.                           *)
(***************************************************************************)
\* C25: after a Paladin's leave_combat the character is out of combat,
\* SOR_ACTIVE is false and the cooldown counter of every learned spell is 0.
C25_PaladinLeaveCombat ==
    op.name = "leave_combat" =>
        /\ ~is_in_combat(ent.character)
        /\ ~ent.character.SOR_ACTIVE
        /\ \A spell \in DOMAIN ent.character.learned_spells :
              ent.character.learned_spells[spell] = 0

\* C25: a Paladin in combat, with the seal active and both spells on
\* cooldown, left combat.
C25_Witness ==
    /\ op.name = "leave_combat"
    /\ op.pre.in_combat
    /\ op.pre.SOR_ACTIVE
    /\ \A spell \in PaladinSpells : op.pre.learned_spells[spell] > 0
    /\ ~ent.character.in_combat

(***************************************************************************)
(* Properties of the equipment and of the swing's roll, under SpecEquip.   *)
(***************************************************************************)
\* The units of an item that an inventory holds.
Held(inventory, name) == IF name \in DOMAIN inventory THEN inventory[name] ELSE 0

\* C26: the raw roll of an auto-attack, of the Monster and of the Character,
\* is an integer from min_damage to max_damage and never exceeds max_damage.
C26_RollWithinDamageRange ==
    op.name = "get_auto_attack_damage" =>
        IF op.who = "monster"
        THEN op.roll >= ent.monster.min_damage /\ op.roll <= ent.monster.max_damage
        ELSE /\ RLeq(ent.character.min_damage, RInt(op.roll))
             /\ RLeq(RInt(op.roll), ent.character.max_damage)

\* C29: equip_item of a weapon held in the inventory takes one unit of it
\* out of the inventory, deleting the entry when it held one, puts one unit
\* of the weapon equipped before into the inventory, and equips the new
\* weapon; the weapons held, inventory and equipped together, stay as many.
C29_EquipItemSwaps ==
    ( /\ op.name = "equip_item"
      /\ is_weapon(op.item)
      /\ Held(op.pre.inventory, op.item.name) >= 1 ) =>
        LET before == op.pre.inventory
            after == ent.character.inventory
            old == op.pre.equipped_weapon.name
            new == op.item.name
        IN  /\ ent.character.raised = ""
            /\ ent.character.equipped_weapon = op.item
            /\ \A name \in DOMAIN before \cup DOMAIN after :
                  Held(after, name) = Held(before, name)
                                      - (IF name = new THEN 1 ELSE 0)
                                      + (IF name = old THEN 1 ELSE 0)
            /\ \A name \in DOMAIN after \ {"gold"} : after[name] >= 1

\* C29: the weapon equipped was the only unit of its name in the inventory,
\* and the weapon it replaced joined a unit of its own name there.
C29_Witness ==
    /\ op.name = "equip_item"
    /\ is_weapon(op.item)
    /\ Held(op.pre.inventory, op.item.name) = 1
    /\ op.item.name \notin DOMAIN ent.character.inventory
    /\ Held(op.pre.inventory, op.pre.equipped_weapon.name) >= 1
    /\ Held(ent.character.inventory, op.pre.equipped_weapon.name) >= 2

\* C30: right after equip_weapon or equip_item has changed the equipped
\* weapon, min_damage = weapon.min_damage + 0.1 * strength and
\* max_damage = weapon.max_damage + 0.1 * strength for the weapon equipped.
C30_DamageRecomputed ==
    ( \/ op.name = "equip_weapon"
      \/ op.name = "equip_item" /\ is_weapon(op.item) /\ ent.character.raised = "" ) =>
        /\ ent.character.equipped_weapon = op.item
        /\ ent.character.min_damage =
               RAdd(RInt(op.item.min_damage), Rat(ent.character.strength, 10))
        /\ ent.character.max_damage =
               RAdd(RInt(op.item.max_damage), Rat(ent.character.strength, 10))

\* C30: a level-2 character changed its weapon for one of another range.
C30_Witness ==
    /\ op.name = "equip_item"
    /\ is_weapon(op.item)
    /\ ent.character.raised = ""
    /\ ent.character.level = 2
    /\ op.item.min_damage # op.pre.equipped_weapon.min_damage
    /\ ent.character.min_damage # op.pre.min_damage

\* C32: in every state, min_damage and max_damage are those of the equipped
\* weapon plus 0.1 * strength, also after a level-up has raised strength.
C32_DamageDerived ==
    /\ ent.character.min_damage =
           RAdd(RInt(ent.character.equipped_weapon.min_damage),
                Rat(ent.character.strength, 10))
    /\ ent.character.max_damage =
           RAdd(RInt(ent.character.equipped_weapon.max_damage),
                Rat(ent.character.strength, 10))

\* C34: award_item(item, n), called directly or by buy_item, raises the count
\* of the item in the inventory by exactly n, from 0 when the item was absent
\* and from c when c were held.
C34_AwardItemAddsCount ==
    op.name \in {"award_item", "buy_item"} =>
        Held(ent.character.inventory, op.item.name) =
            Held(op.pre.inventory, op.item.name) + op.item_count

(***************************************************************************)
(* Properties of the pure damage functions, under SpecDamage.              *)
(***************************************************************************)
\* C9: for every attacker level, defender level and raw roll r, with
\* d = attackerLevel - defenderLevel, get_auto_attack_damage of Monster and of
\* Character returns r * (1 + 0.1 * d) when d > 0, r * (1 - 0.1 * |d|) when
\* d < 0, and r when d = 0.
C9_LevelScaling ==
    calc.fn \in {"Monster.get_auto_attack_damage", "Character.get_auto_attack_damage"} =>
        LET d == calc.self_level - calc.target_level
            r == calc.roll
            x == calc.result.phys_dmg
        IN  /\ d > 0 => x = Rat(r * (10 + d), 10)
            /\ d < 0 => x = Rat(r * (10 - Abs(d)), 10)
            /\ d = 0 => x = RInt(r)

\* A monster three levels below its target has swung a roll of 2: 2 * 0.7 = 1.4.
C9_Witness ==
    /\ calc.fn = "Monster.get_auto_attack_damage"
    /\ calc.self_level - calc.target_level = -3
    /\ calc.roll = 2
    /\ calc.result.phys_dmg = Rat(14, 10)

IncreasingInArmor ==
    \A armor \in 0 .. MaxCalcArmor :
        armor > calc.armor =>
            RLt(calc.fraction, reduction_percentage(armor, calc.attacker_level))

DecreasingInLevel ==
    \A attacker_level \in 0 .. MaxCalcLevel :
        attacker_level > calc.attacker_level =>
            RLt(reduction_percentage(calc.armor, attacker_level), calc.fraction)

\* C10 as stated: the mitigation fraction armor / (armor + 400 + 85 * level) is
\* strictly increasing in armor for a fixed attacker level, and strictly
\* decreasing in attacker level for every fixed armor >= 0.
C10_Original ==
    calc.fn = "_apply_armor_reduction" =>
        (IncreasingInArmor /\ DecreasingInLevel)

\* C10, amended: the fraction is strictly increasing in armor for a fixed
\* attacker level, and strictly decreasing in attacker level for every fixed
\* armor > 0; at armor = 0 it is 0 at every attacker level.
C10_Monotone ==
    calc.fn = "_apply_armor_reduction" =>
        /\ IncreasingInArmor
        /\ calc.armor > 0 => DecreasingInLevel
        /\ calc.armor = 0 => calc.fraction = Zero

\* The reduction has been applied for the character's starting armor of 75
\* against a level 1 attacker: 75 / 560 = 15 / 112.
C10_Witness ==
    /\ calc.fn = "_apply_armor_reduction"
    /\ calc.armor = 75
    /\ calc.attacker_level = 1
    /\ calc.fraction = Rat(15, 112)

====
